---- MODULE Spec2Model ----
(***************************************************************************)
(* FriendDetectorNearby2026.ino: a passive 802.11 frame monitor.           *)
(*                                                                         *)
(* loop() re-arms capture, then visits every entry of channels[] in order; *)
(* on each channel it busy-waits 250 ms of millis() time, draining the     *)
(* radio library's frame queue (esppl_process_frames) and yielding once    *)
(* per iteration.  Every frame the library delivers goes through cb(),     *)
(* which drops beacons and weak frames and prints one report for the rest. *)
(*                                                                         *)
(* The radio library (esppl_functions.h) is not part of the sources; its   *)
(* four calls are modelled from the capability contract of the             *)
(* specification (section 6).                                              *)
(***************************************************************************)
EXTENDS Integers, Sequences, FiniteSets, TLC

VARIABLES
    channels,       \* int channels[]        (global, line 7)
    channelCount,   \* int channelCount      (global, line 9)
    pc,             \* position of the single control flow (setup / loop)
    i,              \* loop(): for-index
    start,          \* loop(): unsigned long start
    now,            \* the value millis() returns, modulo ClockMod
    real,           \* history: ms of wall-clock time since `start' was read
    registered,     \* esppl_init(cb) has been called
    sniffing,       \* esppl_sniffing_start() has been called
    activeChannel,  \* the radio's channel (0: none activated yet)
    pending,        \* frames captured by the radio, not yet delivered
    out,            \* Serial: the sequence of strings printed so far
    delivered,      \* history: frames handed to cb, in delivery order
    emitted,        \* history: emitted[k] = what cb printed for delivered[k]
    activated,      \* history: channels activated in the current cycle
    calls,          \* history: radio control calls since loop() was entered
    lastPoll,       \* history: last poll result since the deadline check
    yields,         \* history: yields since the last deadline check
    checked         \* history: a deadline check was made in this window

vars == <<channels, channelCount, pc, i, start, now, real, registered,
          sniffing, activeChannel, pending, out, delivered, emitted,
          activated, calls, lastPoll, yields, checked>>

-----------------------------------------------------------------------------
(* Configuration and bounds *)

RSSI_THRESHOLD == -60
BEACON == 8
PROBE == 4
DWELL_HALVED == 250 \div 2

DWELL == 250
STARTUP_DELAY == 500
ConfiguredChannels == <<1, 4, 6, 11>>

\* millis() is an unsigned long; the model keeps the modular arithmetic on a
\* narrower word so that the clock wraps inside the explored behaviours.
ClockBits == 9
ClockMod == 2 ^ ClockBits
\* granularity with which the model lets wall-clock time advance
TickMs == ClockMod \div 4

\* the mark of a capture start in the history of radio control calls
CAPTURE_START == 0

MaxPending == 2     \* frames the radio queue holds in the model
MaxLog == 2         \* classified frames whose output the histories record

Min(a, b) == IF a < b THEN a ELSE b

-----------------------------------------------------------------------------
(* Serial formatting *)

HexDigits == <<"0", "1", "2", "3", "4", "5", "6", "7",
               "8", "9", "a", "b", "c", "d", "e", "f">>

\* Serial.print(int): signed decimal, no padding
RECURSIVE Dec(_)
Dec(n) == IF n < 0 THEN "-" \o Dec(0 - n)
          ELSE IF n < 10 THEN HexDigits[n + 1]
          ELSE Dec(n \div 10) \o HexDigits[(n % 10) + 1]

HexNoPad(b) == IF b < 16 THEN HexDigits[b + 1]
               ELSE HexDigits[(b \div 16) + 1] \o HexDigits[(b % 16) + 1]

\* Serial.printf("%02x", b) for a byte b
Hex02(b) == HexDigits[(b \div 16) + 1] \o HexDigits[(b % 16) + 1]

\* the text of a sequence of print calls
RECURSIVE Text(_)
Text(s) == IF s = <<>> THEN "" ELSE Head(s) \o Text(Tail(s))

-----------------------------------------------------------------------------
(* cb: the frame classifier *)

IsBeaconNever(info) == FALSE

\* line 16: if (info->framesubtype == 8) return;
IsBeacon(info) == info.framesubtype = BEACON

IsWeakInclusive(info) == info.rssi <= RSSI_THRESHOLD

IsWeakOffByOne(info) == info.rssi < RSSI_THRESHOLD - 1

\* line 22: if (info->rssi < RSSI_THRESHOLD) return;
IsWeak(info) == info.rssi < RSSI_THRESHOLD

\* lines 27-35: the fixed part of the report
PrintDetails(info) ==
    << "\n", "FT: ", Dec(info.frametype), " FST: ", Dec(info.framesubtype),
       " RSSI: ", Dec(info.rssi), " CH: ", Dec(info.channel) >>

\* lines 38-39: " SRC: " and the six address bytes, byte 0 first
PrintSource(info) ==
    << " SRC: " >> \o [k \in 1..6 |-> Hex02(info.sourceaddr[k])]

PrintProbeAlways(info) == << " [PROBE]" >>

\* lines 42-44: the probe-request marker
PrintProbe(info) ==
    IF info.framesubtype = PROBE THEN << " [PROBE]" >> ELSE << >>

cbNoRssiFilter(info) ==
    IF IsBeacon(info) THEN << >>
    ELSE PrintDetails(info) \o PrintSource(info) \o PrintProbe(info)

cbDedup(info) ==
    IF IsBeacon(info) THEN << >>
    ELSE IF IsWeak(info) THEN << >>
    ELSE IF \E k \in DOMAIN delivered :
               delivered[k].sourceaddr = info.sourceaddr THEN << >>
    ELSE PrintDetails(info) \o PrintSource(info) \o PrintProbe(info)

\* cb(info): the print calls made for one frame
cb(info) ==
    IF IsBeacon(info) THEN << >>
    ELSE IF IsWeak(info) THEN << >>
    ELSE PrintDetails(info) \o PrintSource(info) \o PrintProbe(info)

-----------------------------------------------------------------------------
(* Frames *)

Frame(ft, fst, rssi, ch, src) ==
    [frametype |-> ft, framesubtype |-> fst, rssi |-> rssi,
     channel |-> ch, sourceaddr |-> src]

AddrA == <<170, 187, 204, 221, 238, 255>>     \* aa:bb:cc:dd:ee:ff
AddrB == <<0, 1, 10, 16, 127, 9>>             \* 00:01:0a:10:7f:09

\* what the radio captures while the scheduler runs: a strong probe request,
\* a data frame at the threshold and a weak data frame
AirFrames == { Frame(0, 4, -55, 6, AddrA),
               Frame(2, 0, -60, 11, AddrB),
               Frame(2, 0, -70, 11, AddrB) }

\* the frames classified in isolation
FrameTypes == {0, 1, 2}
FrameSubtypes == {0, 4, 5, 8, 13}
Rssis == {-70, -61, -60, -59, -55, -30}
FrameChannels == {1, 6, 11}
AllFrames == { Frame(ft, fst, r, ch, a) :
                 ft \in FrameTypes, fst \in FrameSubtypes, r \in Rssis,
                 ch \in FrameChannels, a \in {AddrA, AddrB} }

-----------------------------------------------------------------------------
(* The radio library, esppl_functions.h *)

\* esppl_init(cb): registers the frame-delivery callback
esppl_init == registered' = TRUE

\* esppl_sniffing_start(): begins promiscuous capture
esppl_sniffing_start == sniffing' = TRUE

\* esppl_set_channel(ch): sets the radio's active channel
esppl_set_channel(ch) == activeChannel' = ch

\* esppl_process_frames(): true when a frame is delivered during the poll
esppl_process_frames == pending # << >>

\* the frames one poll hands to the callback, oldest first, and those left
Taken(n) == SubSeq(pending, 1, n)
Left(n) == SubSeq(pending, n + 1, Len(pending))

-----------------------------------------------------------------------------
(* setup() and loop() *)

Banner == "Sniffer started. Scanning channels: 1, 4, 6, 11\r\n"

Init ==
    /\ channels = ConfiguredChannels
    /\ channelCount = Len(ConfiguredChannels)
    /\ pc = "setup"
    /\ i = 0
    /\ start = 0
    /\ now = 0
    /\ real = 0
    /\ registered = FALSE
    /\ sniffing = FALSE
    /\ activeChannel = 0
    /\ pending = << >>
    /\ out = << >>
    /\ delivered = << >>
    /\ emitted = << >>
    /\ activated = << >>
    /\ calls = << >>
    /\ lastPoll = "none"
    /\ yields = 0
    /\ checked = FALSE

\* lines 47-55
Setup ==
    /\ pc = "setup"
    /\ now' = (now + STARTUP_DELAY) % ClockMod
    /\ esppl_init
    /\ out' = Append(out, Banner)
    /\ pc' = "loop"
    /\ UNCHANGED <<calls, real, channels, channelCount, i, start, sniffing,
                   activeChannel, pending, delivered, emitted, activated,
                   lastPoll, yields, checked>>

\* line 58: esppl_sniffing_start(); line 61: int i = 0
SniffingStart ==
    /\ pc = "loop"
    /\ esppl_sniffing_start
    /\ i' = 0
    /\ activated' = << >>
    /\ pc' = "for"
    /\ calls' = Append(calls, CAPTURE_START)
    /\ UNCHANGED <<real, channels, channelCount, start, now, registered,
                   activeChannel, pending, out, delivered, emitted,
                   lastPoll, yields, checked>>

currentChannelReversed(k) == channels[channelCount - k]

\* line 62: int currentChannel = channels[i]
currentChannel(k) == channels[k + 1]

\* lines 61-63: i < channelCount; esppl_set_channel(currentChannel)
SetChannel ==
    /\ pc = "for"
    /\ i < channelCount
    /\ esppl_set_channel(currentChannel(i))
    /\ activated' = Append(activated, currentChannel(i))
    /\ checked' = FALSE
    /\ yields' = 0
    /\ lastPoll' = "none"
    /\ pc' = "millis"
    /\ calls' = Append(calls, currentChannel(i))
    /\ UNCHANGED <<real, channels, channelCount, i, start, now, registered,
                   sniffing, pending, out, delivered, emitted>>

LoopReturnNoRearm ==
    /\ pc = "for"
    /\ ~(i < channelCount)
    /\ i' = 0
    /\ activated' = << >>
    /\ calls' = << >>
    /\ pc' = "for"
    /\ UNCHANGED <<real, channels, channelCount, start, now, registered,
                   sniffing, activeChannel, pending, out, delivered, emitted,
                   lastPoll, yields, checked>>

\* line 61 with i >= channelCount: loop() returns and is called again
LoopReturn ==
    /\ pc = "for"
    /\ ~(i < channelCount)
    /\ pc' = "loop"
    /\ calls' = << >>
    /\ UNCHANGED <<real, channels, channelCount, i, start, now, registered,
                   sniffing, activeChannel, pending, out, delivered, emitted,
                   activated, lastPoll, yields, checked>>

\* line 67: unsigned long start = millis()
RecordStart ==
    /\ pc = "millis"
    /\ start' = now
    /\ real' = 0
    /\ pc' = "while"
    /\ UNCHANGED <<calls, channels, channelCount, i, now, registered, sniffing,
                   activeChannel, pending, out, delivered, emitted,
                   activated, lastPoll, yields, checked>>

ElapsedSigned == now - start

\* line 68: millis() - start, on unsigned long
Elapsed == (now + ClockMod - start) % ClockMod

\* line 68, condition true: enter the body
DwellContinue ==
    /\ pc = "while"
    /\ Elapsed < DWELL
    /\ pc' = "poll"
    /\ checked' = TRUE
    /\ yields' = 0
    /\ lastPoll' = "none"
    /\ UNCHANGED <<calls, real, channels, channelCount, i, start, now, registered,
                   sniffing, activeChannel, pending, out, delivered, emitted,
                   activated>>

\* line 68, condition false; line 61: i++
DwellExpire ==
    /\ pc = "while"
    /\ ~(Elapsed < DWELL)
    /\ i' = i + 1
    /\ pc' = "for"
    /\ checked' = TRUE
    /\ UNCHANGED <<calls, real, channels, channelCount, start, now, registered,
                   sniffing, activeChannel, pending, out, delivered, emitted,
                   activated, lastPoll, yields>>

\* the Serial stream after cb has run on each frame of fs, in order
RECURSIVE Classify(_, _)
Classify(s, fs) ==
    IF fs = << >> THEN s ELSE Classify(s \o cb(Head(fs)), Tail(fs))

PollFrameChecksDeadline ==
    /\ pc = "poll"
    /\ esppl_process_frames
    /\ \E n \in 1..Len(pending) :
          LET rec == SubSeq(Taken(n), 1, Min(n, MaxLog - Len(delivered)))
          IN  /\ pending' = Left(n)
              /\ delivered' = delivered \o rec
              /\ emitted' = emitted \o [k \in 1..Len(rec) |-> cb(rec[k])]
              /\ out' = Classify(out, rec)
    /\ lastPoll' = "frame"
    /\ IF Elapsed < DWELL
          THEN pc' = "poll" /\ i' = i
          ELSE pc' = "for" /\ i' = i + 1
    /\ UNCHANGED <<calls, real, channels, channelCount, start, now, registered,
                   sniffing, activeChannel, activated, yields, checked>>

PollFrameRetunes ==
    /\ pc = "poll"
    /\ esppl_process_frames
    /\ \E n \in 1..Len(pending) :
          LET rec == SubSeq(Taken(n), 1, Min(n, MaxLog - Len(delivered)))
          IN  /\ pending' = Left(n)
              /\ delivered' = delivered \o rec
              /\ emitted' = emitted \o [k \in 1..Len(rec) |-> cb(rec[k])]
              /\ out' = Classify(out, rec)
              /\ activeChannel' = pending[n].channel
    /\ lastPoll' = "frame"
    /\ pc' = "poll"
    /\ UNCHANGED <<calls, real, channels, channelCount, i, start, now, registered,
                   sniffing, activated, yields, checked>>

\* line 70: esppl_process_frames() delivers pending frames to the registered
\* callback and returns true
PollFrame ==
    /\ pc = "poll"
    /\ esppl_process_frames
    /\ \E n \in 1..Len(pending) :
          LET rec == SubSeq(Taken(n), 1, Min(n, MaxLog - Len(delivered)))
          IN  /\ pending' = Left(n)
              /\ delivered' = delivered \o rec
              /\ emitted' = emitted \o [k \in 1..Len(rec) |-> cb(rec[k])]
              /\ out' = Classify(out, rec)
    /\ lastPoll' = "frame"
    /\ pc' = "poll"
    /\ UNCHANGED <<calls, real, channels, channelCount, i, start, now, registered,
                   sniffing, activeChannel, activated, yields, checked>>

\* line 70: esppl_process_frames() finds nothing pending and returns false
PollEmpty ==
    /\ pc = "poll"
    /\ ~esppl_process_frames
    /\ lastPoll' = "empty"
    /\ pc' = "yield"
    /\ UNCHANGED <<calls, real, channels, channelCount, i, start, now, registered,
                   sniffing, activeChannel, pending, out, delivered, emitted,
                   activated, yields, checked>>

YieldLeftOut ==
    /\ pc = "yield"
    /\ pc' = "while"
    /\ UNCHANGED <<calls, real, channels, channelCount, i, start, now, registered,
                   sniffing, activeChannel, pending, out, delivered, emitted,
                   activated, lastPoll, yields, checked>>

\* line 73: yield()
Yield ==
    /\ pc = "yield"
    /\ yields' = yields + 1
    /\ pc' = "while"
    /\ UNCHANGED <<calls, real, channels, channelCount, i, start, now, registered,
                   sniffing, activeChannel, pending, out, delivered, emitted,
                   activated, lastPoll, checked>>

-----------------------------------------------------------------------------
(* Environment: the clock and the air *)

\* wall-clock time passes while the program is inside a call; reading the
\* clock into `start' and the first comparison against it are adjacent
\* instructions and take less than the clock's resolution.  A dwell window is
\* followed for less than one full turn of the clock.
Tick ==
    /\ pc # "while"
    /\ real + TickMs < ClockMod
    /\ now' = (now + TickMs) % ClockMod
    /\ real' = real + TickMs
    /\ UNCHANGED <<calls, channels, channelCount, pc, i, start, registered,
                   sniffing, activeChannel, pending, out, delivered, emitted,
                   activated, lastPoll, yields, checked>>

\* the radio, in capture mode, queues a frame it has heard
Arrive ==
    /\ sniffing
    /\ Len(pending) < MaxPending
    /\ \E f \in AirFrames : pending' = Append(pending, f)
    /\ UNCHANGED <<calls, channels, channelCount, pc, i, start, now, real,
                   registered, sniffing, activeChannel, out, delivered,
                   emitted, activated, lastPoll, yields, checked>>

Step ==
    \/ Setup
    \/ SniffingStart
    \/ SetChannel
    \/ LoopReturn
    \/ RecordStart
    \/ DwellContinue
    \/ DwellExpire
    \/ PollFrame
    \/ PollEmpty
    \/ Yield

Next ==
    \/ Step
    \/ Tick
    \/ Arrive

Spec == Init /\ [][Next]_vars

\* the processor keeps executing the program and the clock keeps running;
\* nothing is assumed of the frames in the air
FairSpec == Spec /\ WF_vars(Step) /\ SF_vars(Tick)

-----------------------------------------------------------------------------
(* The classifier on its own: the program is draining the first dwell      *)
(* window and the radio holds one frame, any of AllFrames.                 *)

ClassInit ==
    /\ channels = ConfiguredChannels
    /\ channelCount = Len(ConfiguredChannels)
    /\ pc = "poll"
    /\ i = 0
    /\ start = STARTUP_DELAY % ClockMod
    /\ now = STARTUP_DELAY % ClockMod
    /\ real = 0
    /\ registered = TRUE
    /\ sniffing = TRUE
    /\ activeChannel = ConfiguredChannels[1]
    /\ pending \in { << f >> : f \in AllFrames }
    /\ out = << Banner >>
    /\ delivered = << >>
    /\ emitted = << >>
    /\ activated = << ConfiguredChannels[1] >>
    /\ calls = << CAPTURE_START, ConfiguredChannels[1] >>
    /\ lastPoll = "none"
    /\ yields = 0
    /\ checked = TRUE

ClassNext ==
    \/ PollFrame
    \/ PollEmpty

ClassSpec == ClassInit /\ [][ClassNext]_vars

-----------------------------------------------------------------------------
(* Two frames in a row: the radio holds two frames with the same subtype    *)
(* and signal strength; type, channel and source address are free.          *)

SameKey(f, g) == f.framesubtype = g.framesubtype /\ f.rssi = g.rssi

PairInit ==
    /\ channels = ConfiguredChannels
    /\ channelCount = Len(ConfiguredChannels)
    /\ pc = "poll"
    /\ i = 0
    /\ start = STARTUP_DELAY % ClockMod
    /\ now = STARTUP_DELAY % ClockMod
    /\ real = 0
    /\ registered = TRUE
    /\ sniffing = TRUE
    /\ activeChannel = ConfiguredChannels[1]
    /\ pending \in UNION { { << f, g >> :
                                 g \in { h \in AllFrames : SameKey(f, h) } } :
                             f \in AllFrames }
    /\ out = << Banner >>
    /\ delivered = << >>
    /\ emitted = << >>
    /\ activated = << ConfiguredChannels[1] >>
    /\ calls = << CAPTURE_START, ConfiguredChannels[1] >>
    /\ lastPoll = "none"
    /\ yields = 0
    /\ checked = TRUE

PairSpec == PairInit /\ [][ClassNext]_vars

-----------------------------------------------------------------------------
(* The program built with another channels[] initialiser on line 7: the     *)
(* list as shipped, a single entry, and none.                               *)

ChannelLists == { <<1, 4, 6, 11>>, <<6>>, << >> }

ConfigInit ==
    /\ channels \in ChannelLists
    /\ channelCount = Len(channels)
    /\ pc = "setup"
    /\ i = 0
    /\ start = 0
    /\ now = 0
    /\ real = 0
    /\ registered = FALSE
    /\ sniffing = FALSE
    /\ activeChannel = 0
    /\ pending = << >>
    /\ out = << >>
    /\ delivered = << >>
    /\ emitted = << >>
    /\ activated = << >>
    /\ calls = << >>
    /\ lastPoll = "none"
    /\ yields = 0
    /\ checked = FALSE

ConfigSpec == ConfigInit /\ [][Next]_vars

FairConfigSpec == ConfigSpec /\ WF_vars(Step) /\ SF_vars(Tick)

-----------------------------------------------------------------------------
(* Properties *)

\* what a reader expects to see for the numbers and addresses in use
Shown(n) ==
    CASE n = 0 -> "0"   [] n = 1 -> "1"   [] n = 2 -> "2"   [] n = 4 -> "4"
      [] n = 5 -> "5"   [] n = 6 -> "6"   [] n = 8 -> "8"   [] n = 11 -> "11"
      [] n = 13 -> "13" [] n = -30 -> "-30" [] n = -55 -> "-55"
      [] n = -59 -> "-59" [] n = -60 -> "-60" [] n = -61 -> "-61"
      [] n = -70 -> "-70"

ShownAddr(a) ==
    CASE a = AddrA -> "aabbccddeeff"
      [] a = AddrB -> "00010a107f09"

Passes(f) == f.framesubtype # 8 /\ f.rssi >= -60

ExpectedLine(f) ==
    "FT: " \o Shown(f.frametype) \o " FST: " \o Shown(f.framesubtype)
    \o " RSSI: " \o Shown(f.rssi) \o " CH: " \o Shown(f.channel)
    \o " SRC: " \o ShownAddr(f.sourceaddr)
    \o (IF f.framesubtype = 4 THEN " [PROBE]" ELSE "")

ReportCount(s) == Cardinality({ k \in DOMAIN s : s[k] = "FT: " })

InDwell == pc \in {"millis", "while", "poll", "yield"}

\* C1: in every cycle of loop() the channels 1, 4, 6, 11 are activated in
\* that order, each once, whatever frames arrive; while the program dwells
\* the radio is on the channel activated last; a finished cycle has
\* activated exactly 1, 4, 6, 11.
C1_ChannelOrder ==
    /\ Len(activated) <= 4
    /\ activated = SubSeq(<<1, 4, 6, 11>>, 1, Len(activated))
    /\ InDwell => /\ Len(activated) = i + 1
                  /\ activeChannel = activated[Len(activated)]
    /\ pc = "for" => Len(activated) = i
    /\ (pc = "loop" /\ sniffing) => activated = <<1, 4, 6, 11>>

C1_Witness ==
    /\ pc = "loop"
    /\ activated = <<1, 4, 6, 11>>
    /\ delivered # << >>

\* C2: a frame of subtype 8 makes cb print nothing, whatever its signal
\* strength, type, channel and source address.
C2_BeaconSilent ==
    \A k \in DOMAIN delivered :
        delivered[k].framesubtype = 8 => emitted[k] = << >>

C2_Witness ==
    \E k \in DOMAIN delivered :
        /\ delivered[k].framesubtype = 8
        /\ delivered[k].rssi = -30
        /\ delivered[k].frametype = 2

\* C3: a frame weaker than -60 makes cb print nothing, whatever its subtype.
C3_WeakSilent ==
    \A k \in DOMAIN delivered :
        delivered[k].rssi < -60 => emitted[k] = << >>

C3_Witness ==
    \E k \in DOMAIN delivered :
        /\ delivered[k].rssi = -61
        /\ delivered[k].framesubtype = 4

\* C4: cb prints exactly one report when the subtype is not 8 and the signal
\* strength is at least -60, and nothing otherwise; -60 itself is reported,
\* and so is a subtype that is neither 4 nor 8.
C4_ReportIff ==
    \A k \in DOMAIN delivered :
        IF Passes(delivered[k])
        THEN ReportCount(emitted[k]) = 1
        ELSE emitted[k] = << >>

C4_Witness ==
    \E k \in DOMAIN delivered :
        /\ delivered[k].rssi = -60
        /\ delivered[k].framesubtype = 13
        /\ ReportCount(emitted[k]) = 1

\* C5: a report carries " [PROBE]" exactly when the subtype is 4; a weak
\* subtype-4 frame gets neither report nor marker.
C5_ProbeMarkerIff ==
    \A k \in DOMAIN delivered :
        LET marked == \E j \in DOMAIN emitted[k] : emitted[k][j] = " [PROBE]"
        IN  /\ emitted[k] # << >> => (marked <=> delivered[k].framesubtype = 4)
            /\ emitted[k] = << >> => ~marked
            /\ (delivered[k].framesubtype = 4 /\ delivered[k].rssi < -60)
                  => emitted[k] = << >>

C5_Witness ==
    \E k \in DOMAIN delivered :
        /\ delivered[k].framesubtype = 4
        /\ delivered[k].rssi = -60
        /\ emitted[k][Len(emitted[k])] = " [PROBE]"

\* C6: a report is, after the line break that opens it, the frame type, the
\* subtype, the signal strength, the channel and the source address as
\* twelve lowercase hex digits, in this order, then the probe marker when
\* the subtype is 4; type 0, subtype 4, rssi -55, channel 6, address
\* aa:bb:cc:dd:ee:ff gives
\* "FT: 0 FST: 4 RSSI: -55 CH: 6 SRC: aabbccddeeff [PROBE]".
C6_ReportFormat ==
    \A k \in DOMAIN delivered :
        /\ emitted[k] # << >> =>
              Text(emitted[k]) = "\n" \o ExpectedLine(delivered[k])
        /\ delivered[k] = Frame(0, 4, -55, 6, AddrA) =>
              Text(emitted[k]) =
                "\nFT: 0 FST: 4 RSSI: -55 CH: 6 SRC: aabbccddeeff [PROBE]"

C6_Witness ==
    \E k \in DOMAIN delivered :
        /\ delivered[k] = Frame(1, 13, -59, 11, AddrB)
        /\ Text(emitted[k]) =
              "\nFT: 1 FST: 13 RSSI: -59 CH: 11 SRC: 00010a107f09"

\* C7: between two consecutive deadline checks of a dwell window there is
\* exactly one yield, made after the drain has found the queue empty and
\* before the elapsed time is checked again, also when the first poll of the
\* iteration finds nothing pending.
C7_YieldEveryIteration ==
    /\ (pc = "while" /\ checked) => (yields = 1 /\ lastPoll = "empty")
    /\ (pc = "while" /\ ~checked) => yields = 0
    /\ pc = "poll" => yields = 0
    /\ pc = "yield" => (yields = 0 /\ lastPoll = "empty")

C7_Witness ==
    /\ pc = "while"
    /\ checked
    /\ yields = 1
    /\ delivered = << >>
    /\ pending = << >>

\* C8: once an iteration of the dwell loop has started, its yield is
\* eventually executed, however long the poll keeps reporting frames.
C8_YieldEventually == (pc = "poll") ~> (yields > 0)

\* C9: every channel visit ends, whatever frames arrive: a dwell is followed
\* by the next step of the channel list, and every configured channel is
\* activated again and again.
C9_VisitEnds ==
    /\ InDwell ~> (pc = "for")
    /\ \A c \in {1, 4, 6, 11} : []<>(pc = "millis" /\ activeChannel = c)

RECURSIVE ExpectedText(_)
ExpectedText(fs) ==
    IF fs = << >> THEN ""
    ELSE (IF Passes(Head(fs)) THEN "\n" \o ExpectedLine(Head(fs)) ELSE "")
         \o ExpectedText(Tail(fs))

\* C10: the reports on the output stream are those of the delivered frames
\* that pass the filter, in delivery order, each one complete before the next
\* begins.
C10_DeliveryOrder ==
    Text(out) = (IF pc = "setup" THEN "" ELSE Banner) \o ExpectedText(delivered)

C10_Witness ==
    /\ Len(delivered) = 2
    /\ Passes(delivered[1])
    /\ Passes(delivered[2])
    /\ delivered[1] # delivered[2]
    /\ pc = "yield"

\* C11: capture is re-armed once per cycle: the radio control calls of a
\* cycle are one capture start followed by the activations of 1, 4, 6, 11, so
\* the first activation comes right after the capture start and no capture
\* start lies between two activations of a cycle.
C11_RearmOncePerCycle ==
    /\ Len(calls) <= 5
    /\ calls = SubSeq(<<CAPTURE_START, 1, 4, 6, 11>>, 1, Len(calls))
    /\ pc \in {"setup", "loop"} => calls = << >>
    /\ pc = "for" => Len(calls) = i + 1
    /\ InDwell => Len(calls) = i + 2

C11_Witness ==
    /\ pc = "millis"
    /\ calls = <<CAPTURE_START, 1>>
    /\ delivered # << >>

Scanning == sniffing \/ activeChannel # 0 \/ InDwell \/ delivered # << >>

\* C12: with an empty channel list the program never enters the scan loop:
\* no capture start, no channel activation, no polling.
C12_ConfigRejected ==
    channels = << >> => (~Scanning /\ pc \in {"setup", "loop"})

RECURSIVE Listed(_)
Listed(cs) ==
    IF cs = << >> THEN ""
    ELSE IF Len(cs) = 1 THEN Shown(cs[1])
    ELSE Shown(cs[1]) \o ", " \o Listed(Tail(cs))

Announcement(cs) ==
    "Sniffer started. Scanning channels: " \o Listed(cs) \o "\r\n"

\* C13: with a single-entry list the one channel is activated once per
\* cycle, each activation is followed by a dwell window that drains and
\* yields, and the cycle repeats forever.
C13_SingleChannel ==
    /\ [](channels = <<6>> => calls \in {<< >>, <<CAPTURE_START>>,
                                        <<CAPTURE_START, 6>>})
    /\ (channels = <<6>> /\ pc = "millis") ~> (yields > 0)
    /\ []<>(channels # <<6>> \/ pc = "millis")

\* C14: before scanning begins the callback is registered and the stream
\* holds one announcement line that lists the configured channels, whatever
\* list is configured.
C14_Announcement ==
    Scanning => /\ registered
                /\ Len(out) >= 1
                /\ out[1] = Announcement(channels)

\* C15: a channel is left, and a cycle ends, only when the last poll of the
\* frame queue found it empty and no frame was classified since.
C15_NoSwitchMidDrain ==
    /\ (pc = "for" /\ i > 0) => lastPoll = "empty"
    /\ (pc = "loop" /\ sniffing) => lastPoll = "empty"

C15_Witness ==
    /\ pc = "for"
    /\ i = 1
    /\ lastPoll = "empty"
    /\ delivered # << >>
    /\ pending # << >>

\* C16: a channel is left only when at least 250 ms have passed since the
\* start timestamp was read, and after at least one drain-and-yield iteration.
C16_NeverLeftEarly ==
    (pc = "for" /\ i > 0) => (real >= 250 /\ checked /\ yields = 1)

C16_Witness ==
    /\ pc = "for"
    /\ i = 2
    /\ real >= 250
    /\ yields = 1

Marked(s) == \E k \in DOMAIN s : s[k] = " [PROBE]"

\* C17: two frames with the same subtype and signal strength get the same
\* drop/keep decision and the same marker decision, whatever their type,
\* channel and source address and whatever was classified before.
C17_DecisionByKeyOnly ==
    \A j, k \in DOMAIN delivered :
        (/\ delivered[j].framesubtype = delivered[k].framesubtype
         /\ delivered[j].rssi = delivered[k].rssi)
        => /\ (emitted[j] = << >>) <=> (emitted[k] = << >>)
           /\ Marked(emitted[j]) <=> Marked(emitted[k])

C17_Witness ==
    /\ Len(delivered) = 2
    /\ delivered[1].framesubtype = 4
    /\ delivered[2].framesubtype = 4
    /\ delivered[1].rssi = -60
    /\ delivered[2].rssi = -60
    /\ delivered[1].sourceaddr = delivered[2].sourceaddr
    /\ delivered[1].frametype # delivered[2].frametype
    /\ delivered[1].channel # delivered[2].channel
    /\ Marked(emitted[1])
    /\ Marked(emitted[2])

\* C18: only the activation step changes the radio's channel; polling,
\* classifying, printing and yielding leave the channel, the list position
\* and the start timestamp as they are.
C18_ChannelOwnedByScheduler ==
    [][ /\ (activeChannel' # activeChannel) => (pc = "for" /\ pc' = "millis")
        /\ (pc \in {"poll", "yield"}) =>
              (activeChannel' = activeChannel /\ i' = i /\ start' = start)
      ]_vars

C18_Witness ==
    /\ pc = "while"
    /\ yields = 1
    /\ i = 0
    /\ activeChannel = 1
    /\ Len(delivered) = 2
    /\ emitted[1] # << >>
    /\ delivered[1].channel # activeChannel

\* C19: the unsigned difference millis() - start is the time that has really
\* passed since start was read, also after the clock has wrapped, so the
\* window goes on exactly while less than 250 ms have passed.
C19_WrapSafe ==
    /\ pc \in {"while", "poll", "yield"} => Elapsed = real
    /\ pc \in {"poll", "yield"} => checked
    /\ (pc = "for" /\ i > 0) => real >= 250

C19_Witness ==
    /\ pc = "for"
    /\ i > 0
    /\ now < start
    /\ real >= 250

====
